---- MODULE Spec2Model ----
(***************************************************************************)
(* Model of src/element/__init__.py: the condition poller (waitfor), the   *)
(* lazily resolving Element node (_find, element, elements), the chainable *)
(* conditions and actions built on them and the wrapper returned by        *)
(* multipleElements, over a small page-object tree and a small DOM served  *)
(* by the driver.                                                          *)
(***************************************************************************)
EXTENDS Integers, Sequences, FiniteSets, TLC

\* ------------------------------------------------------------------ bounds
\* Largest timeout handed to a bare waitfor call (ticks); its predicate's
\* behaviour is a script of that many evaluations.
MaxPoll == 3
\* Largest timeout passed to exists, not_exists and the is_* conditions.
MaxWait == 2
\* Largest timeout passed to has_text.
MaxTimeout == 5
\* Number of DOM mutations the page performs in one behaviour.
MaxDomChanges == 1
\* Largest delay (ticks) after which the page shows the text "Pattern match".
MaxDelay == 3

\* ------------------------------------------------------- values of the code
\* Python's None as a handle value (self.webelement = None).
None == 0
\* The driver as a search context (find_context = self.driver).
Driver == -1
NoNode == "none"
NoExc == [kind |-> "none", msg |-> <<>>]

\* --------------------------------------------------- the page-object tree
\* page = Element(None); sec, frm, res are direct children of the root;
\* btn is a child of sec; inf is a child of sec that declares iframe=frm;
\* res is an instance of the class returned by multipleElements.
Nodes == {"sec", "btn", "frm", "inf", "res"}

\* cel is a child of inf that declares no iframe of its own.
Deep == {"cel"}

\* The children the wrapper res builds, by index: cls(self.parent, None,
\* self.iframe, webelement, desc, **self.kwargs).
ChildName == <<"res0", "res1", "res2">>
Children == {ChildName[i] : i \in DOMAIN ChildName}

AllNodes == Nodes \cup Deep \cup Children

\* The nodes a test acts on: the ones that contain no other node.
Leaves == {"btn", "inf", "res"}

parent == [n \in AllNodes \cup {"page"} |->
             CASE n = "page" -> NoNode
               [] n \in {"sec", "frm", "res"} \cup Children -> "page"
               [] n = "cel" -> "inf"
               [] OTHER -> "sec"]

iframe == [n \in AllNodes \cup {"page"} |->
             IF n = "inf" THEN "frm" ELSE NoNode]

\* The class returned by multipleElements defines __len__.
IsWrapper(n) == n = "res"

\* self.query: each node looks up its own css selector.
query == [n \in AllNodes |-> IF n \in Children THEN "res" ELSE n]

\* ------------------------------------------------------------- the DOM
\* Live-node handles the driver can hand out.  Each handle has the selector
\* it matches, the handle of the element that contains it (None: top level)
\* and the frame element whose document holds it (None: default content).
Handles == 1..9

\* 1: the section; 2: the button inside it; 3: the iframe element; 4: the
\* node inside the iframe's document; 5: a node of the same selector in the
\* default content; 6, 7, 8: the repeated results; 9: the cell inside
\* node 4, in the iframe's document.
queryOf == [h \in Handles |->
              CASE h = 1 -> "sec"
                [] h = 2 -> "btn"
                [] h = 3 -> "frm"
                [] h \in {4, 5} -> "inf"
                [] h = 9 -> "cel"
                [] OTHER -> "res"]

within == [h \in Handles |-> IF h = 2 THEN 1 ELSE IF h = 9 THEN 4 ELSE None]

frameOf == [h \in Handles |-> IF h \in {4, 9} THEN 3 ELSE None]

HandlesOf(q) == {h \in Handles : queryOf[h] = q}

\* ------------------------------------------------------------------ state
VARIABLES
    pc,           \* position of the one caller: "idle", "eval", "sleep", "done"
    call,         \* the public operation in progress (or the last one)
    countdown,    \* iterations left of waitfor's for loop
    trace,        \* what the current waitfor did: "T", "F", "X" evaluations, "sleep"
    outcome,      \* what the last finished operation returned or raised
    script,       \* behaviour of the predicate handed to a bare waitfor call
    prev,         \* arguments, outcome and trace of the bare waitfor call before
    attached,     \* handles attached to the page
    domChanges,   \* DOM mutations performed so far
    textDelay,    \* ticks until the page shows "Pattern match" (0: shown)
    delayAtCall,  \* textDelay when the operation in progress was called
    seen,         \* what the node of the call matched at some moment of the call
    frame,        \* the driver session's active frame (None: default content)
    webelement,   \* self.webelement of every node
    webelements,  \* self.webelements of every node
    log,          \* driver calls of the last predicate evaluation or resolve
    multiple,     \* the wrapper's _multiple: whether it is set, and its children
    created,      \* number of child objects the wrapper has constructed
    fields,       \* lookup_method, query, parent, iframe of every constructed node
    value,        \* the number, handle or children the last operation returned
    before,       \* the cached handle, its probe and the page when the read began
    rendered      \* selectors the page has re-rendered so far

vars == <<pc, call, countdown, trace, outcome, script, prev, attached,
          domChanges, textDelay, delayAtCall, seen, frame, webelement,
          webelements, log, multiple, created, fields, value, before, rendered>>

\* What the wrapper operations and the bookkeeping of reads add to the state.
wrapperVars == <<multiple, created, fields, value, before, rendered>>

\* The mutable state a method of Element reads and writes.
St == [we |-> webelement, wes |-> webelements, fr |-> frame, lg |-> log]

\* ------------------------------------------------------------- the driver
\* A handle is live while it, its container and its frame are attached.
Live(h, att) ==
    /\ h \in att
    /\ within[h] # None => within[h] \in att
    /\ frameOf[h] # None => frameOf[h] \in att

\* Reading a property of a handle (webelement.size): raises for None, for a
\* detached handle and for a handle of another document than the active frame's.
ProbeOk(h, fr, att) == h # None /\ Live(h, att) /\ frameOf[h] = fr

RECURSIVE SortedSeq(_)
SortedSeq(S) ==
    IF S = {} THEN <<>>
    ELSE LET m == CHOOSE x \in S : \A y \in S : x <= y
         IN <<m>> \o SortedSeq(S \ {m})

\* find_elements_by_<method>(query) on the driver or on a handle, in document
\* order.  ok = FALSE: the call raised (the scope handle is stale).
Locate(scope, q, fr, att) ==
    IF scope = Driver
    THEN [ok |-> TRUE,
          res |-> SortedSeq({h \in HandlesOf(q) : Live(h, att) /\ frameOf[h] = fr})]
    ELSE IF ~ProbeOk(scope, fr, att)
    THEN [ok |-> FALSE, res |-> <<>>]
    ELSE [ok |-> TRUE,
          res |-> SortedSeq({h \in HandlesOf(q) :
                               Live(h, att) /\ within[h] = scope})]

\* driver.switch_to.default_content()
DefaultContent(n, st) ==
    [st EXCEPT !.fr = None,
               !.lg = Append(@, [op |-> "default_content", node |-> n,
                                 arg |-> None, fr |-> None])]

\* driver.switch_to.frame(h): a null reference selects the top-level
\* document; a handle that is no live frame element raises.
SwitchFrame(n, h, st, att) ==
    LET lg2 == Append(st.lg, [op |-> "frame", node |-> n, arg |-> h, fr |-> st.fr])
    IN IF h = None
       THEN [st |-> [st EXCEPT !.fr = None, !.lg = lg2], exc |-> FALSE, val |-> Driver]
       ELSE IF ProbeOk(h, st.fr, att) /\ queryOf[h] = "frm"
       THEN [st |-> [st EXCEPT !.fr = h, !.lg = lg2], exc |-> FALSE, val |-> Driver]
       ELSE [st |-> [st EXCEPT !.lg = lg2], exc |-> TRUE, val |-> Driver]

\* ---------------------------------------------------------- Element node
RECURSIVE Find(_, _, _), ElementProp(_, _, _)

\* ParentContext without the switch to the default content of line 172.
ParentContextNoReset(n, st, att) ==
    IF parent[n] # NoNode /\ parent[parent[n]] # NoNode
    THEN ElementProp(parent[n], st, att)
    ELSE [st |-> st, exc |-> FALSE, val |-> Driver]

\* Lines 166-172: the parent's handle when the parent itself has a parent
\* (self.parent.element, which may resolve the parent), else the driver
\* after switching to the default content.  val is the context, exc a
\* raised exception.
ParentContext(n, st, att) ==
    IF parent[n] # NoNode /\ parent[parent[n]] # NoNode
    THEN ElementProp(parent[n], st, att)
    ELSE [st |-> DefaultContent(n, st), exc |-> FALSE, val |-> Driver]

\* Line 176: driver.switch_to.frame(self.iframe.element), e being what
\* self.iframe.element gave; line 175: the context is the driver again.
FrameContext(n, e, att) ==
    IF e.exc THEN e ELSE SwitchFrame(n, e.val, e.st, att)

\* IframeContext with the frame switched but the parent's context kept.
IframeContextKeep(n, c, att) ==
    IF c.exc \/ iframe[n] = NoNode
    THEN c
    ELSE [FrameContext(n, ElementProp(iframe[n], c.st, att), att)
            EXCEPT !.val = c.val]

\* Lines 173-176: if self.iframe.
IframeContext(n, c, att) ==
    IF c.exc \/ iframe[n] = NoNode
    THEN c
    ELSE FrameContext(n, ElementProp(iframe[n], c.st, att), att)

\* The search context of _find after its two branches.
FindContext(n, st, att) == IframeContext(n, ParentContext(n, st, att), att)

LocateCall(n, c) == [op |-> "locate", node |-> n, arg |-> c.val, fr |-> c.st.fr]

\* Lines 178-184: the try block around the locate call, r being its result.
Lookup(n, c, r) ==
    IF r.ok /\ r.res # <<>>
    THEN [st |-> [c.st EXCEPT !.we[n] = r.res[1], !.wes[n] = r.res,
                              !.lg = Append(@, LocateCall(n, c))],
          exc |-> FALSE, val |-> TRUE]
    ELSE [st |-> [c.st EXCEPT !.we[n] = None, !.wes[n] = <<>>,
                              !.lg = Append(@, LocateCall(n, c))],
          exc |-> FALSE, val |-> FALSE]

\* Line 177 on: getattr(find_context, ...) raises on a None context, outside
\* the try block; so does an exception raised while scoping.
FindIn(n, c, att) ==
    IF c.exc \/ c.val = None
    THEN [st |-> c.st, exc |-> TRUE, val |-> FALSE]
    ELSE Lookup(n, c, Locate(c.val, query[n], c.st.fr, att))

\* Element._find: val is the returned boolean; exc = TRUE when an exception
\* leaves _find.
Find(n, st, att) == FindIn(n, FindContext(n, st, att), att)

\* return self.webelement, after the _find f of the except clause.
Resolved(n, f) == [st |-> f.st, exc |-> f.exc, val |-> f.st.we[n]]

\* element without the staleness probe.
ElementPropNoProbe(n, st, att) == [st |-> st, exc |-> FALSE, val |-> st.we[n]]

\* element with the cached handle dropped before the resolve.
ElementPropClear(n, st, att) ==
    IF ProbeOk(st.we[n], st.fr, att)
    THEN [st |-> st, exc |-> FALSE, val |-> st.we[n]]
    ELSE Resolved(n, Find(n, [st EXCEPT !.we[n] = None], att))

\* Element.element: probe the cached handle, resolve again when the probe raises.
ElementProp(n, st, att) ==
    IF ProbeOk(st.we[n], st.fr, att)
    THEN [st |-> st, exc |-> FALSE, val |-> st.we[n]]
    ELSE Resolved(n, Find(n, st, att))

\* return self.webelements, after self.element gave e.
ElementsOf(n, e) == [st |-> e.st, exc |-> e.exc, val |-> e.st.wes[n]]

\* Element.elements
Elements(n, st, att) == ElementsOf(n, ElementProp(n, st, att))

\* __len__ of the class returned by multipleElements, as a truth value.
LenTruth(e) == [st |-> e.st, exc |-> e.exc, val |-> Len(e.val) # 0]

\* bool(self): a plain Element is always true; an instance of the class
\* returned by multipleElements has __len__, so it is true iff
\* len(self.elements) is not 0.
Truth(n, st, att) ==
    IF IsWrapper(n)
    THEN LenTruth(Elements(n, st, att))
    ELSE [st |-> st, exc |-> FALSE, val |-> TRUE]

\* ------------------------------------------------------------- strings
\* Text is a sequence of words; "Pattern" in "Pattern match" is containment
\* of a contiguous subsequence (Python's str.__contains__).
Pattern == <<"Pattern">>
PatternMatch == <<"Pattern", " ", "match">>
Loading == <<"Loading">>

Contains(sub, s) ==
    \E i \in 0..(Len(s) - Len(sub)) :
        \A j \in 1..Len(sub) : s[i + j] = sub[j]

\* webelement.text as the page serves it: "Pattern match" once the delay is over.
TextOf(h, delay) == IF delay = 0 THEN PatternMatch ELSE Loading

\* ------------------------------------------------------ ElementUtils.waitfor
\* Coerce without the guard against a timeout of 0.
CoerceNone(timeout) == timeout

\* timeout = timeout if timeout else 1
Coerce(timeout) == IF timeout # 0 THEN timeout ELSE 1

\* raise Exception('Timeout for ' + desc)
TimeoutException(desc) == [kind |-> "Exception", msg |-> <<"Timeout for ", desc>>]

\* WaitforExhausted ignoring raises_exception.
WaitforExhaustedSilent(desc, raises) == [ret |-> "None", exc |-> NoExc]

\* After the for loop: raise when raises_exception, else return None.
WaitforExhausted(desc, raises) ==
    IF raises
    THEN [ret |-> "raise", exc |-> TimeoutException(desc)]
    ELSE [ret |-> "None", exc |-> NoExc]

\* AfterEval without the return on a truthy result: it sleeps and goes on.
AfterEvalNoReturn(res, cd) ==
    CASE res \in {"T", "X"} -> [pc |-> "sleep", cd |-> cd]
      [] OTHER -> IF cd > 1 THEN [pc |-> "eval", cd |-> cd - 1]
                  ELSE [pc |-> "exhausted", cd |-> 0]

\* One pass of the loop body, for a predicate that returned truthy ("T"),
\* returned falsy ("F") or raised ("X"), with cd iterations left including
\* this one: return self, sleep in the except clause, or go on to the next
\* iteration (leaving the loop after the last one).
AfterEval(res, cd) ==
    CASE res = "T" -> [pc |-> "return", cd |-> cd]
      [] res = "X" -> [pc |-> "sleep", cd |-> cd]
      [] OTHER -> IF cd > 1 THEN [pc |-> "eval", cd |-> cd - 1]
                  ELSE [pc |-> "exhausted", cd |-> 0]

\* After time.sleep(1) in the except clause: the next iteration, if any.
AfterSleep(cd) ==
    IF cd > 1 THEN [pc |-> "eval", cd |-> cd - 1]
    ELSE [pc |-> "exhausted", cd |-> 0]

Evals(tr) == Len(SelectSeq(tr, LAMBDA e : e # "sleep"))
Sleeps(tr) == Len(SelectSeq(tr, LAMBDA e : e = "sleep"))

\* ------------------------------------------------- the predicates polled
\* is_displayed, is_enabled and is_selected are one body with three driver
\* checks; "is_state" stands for each of them, the driver's answer being free.
FindOps == {"exists", "is_state"}

\* The description each operation hands to waitfor.
ActOps == {"click", "clear", "send_keys"}

DescOf(op, n) ==
    CASE op \in FindOps -> <<"_found: ", n>>
      [] op = "not_exists" -> <<"_not_found: ", n>>
      [] op \in {"click", "clear"} -> <<"[", op, "] ", n>>
      [] op = "send_keys" -> <<"[send_keys] ", n, "keys">>
      [] op = "has_text_regex" -> <<"[has_text_regex] ", n, "Pattern">>
      [] OTHER -> <<"[has_text] ", n, "Pattern">>

\* webelement.text of the handle self.element gave; raises on None.
TextRead(e, delay) ==
    IF e.exc \/ e.val = None
    THEN [st |-> e.st, exc |-> TRUE, val |-> <<>>]
    ELSE [st |-> e.st, exc |-> FALSE, val |-> TextOf(e.val, delay)]

\* ElementState.text
Text(n, st, att, delay) == TextRead(ElementProp(n, st, att), delay)

Verdict(exc, truthy) == IF exc THEN "X" ELSE IF truthy THEN "T" ELSE "F"

\* self._find as the predicate of _found.
FoundCommand(f) == [st |-> f.st, res |-> Verdict(f.exc, f.val)]
\* lambda: not self._find() as the predicate of _not_found.
NotFoundCommand(f) == [st |-> f.st, res |-> Verdict(f.exc, ~f.val)]
\* lambda st=search_text: st in self.text()
HasTextCommand(t) == [st |-> t.st, res |-> Verdict(t.exc, Contains(Pattern, t.val))]

\* The search of a regular expression made of literal characters only.
Search(regex, s) == Contains(regex, s)
\* lambda sr=search_regex: re.compile(sr).search(self.text()) != None
HasTextRegexCommand(t) ==
    [st |-> t.st, res |-> Verdict(t.exc, Search(Pattern, t.val))]

\* The lambda without its tuple: lambda: self.element.click(), which gives
\* the None that click returns.
ActCommandBare(e, ans) ==
    [st |-> e.st, res |-> Verdict(e.exc \/ e.val = None \/ ~ans, FALSE)]

\* lambda: (self.element.click(), True)[-1], and the same for clear and
\* send_keys; e is what self.element gave, ans whether the driver carries
\* the action out (it raises otherwise).
ActCommand(e, ans) ==
    [st |-> e.st, res |-> Verdict(e.exc \/ e.val = None \/ ~ans, TRUE)]

\* command() of the k-th evaluation.
EvalCommand(c, st, att, delay, k, ans) ==
    CASE c.op = "waitfor" -> [st |-> st, res |-> script[k]]
      [] c.op \in FindOps -> FoundCommand(Find(c.node, st, att))
      [] c.op = "not_exists" -> NotFoundCommand(Find(c.node, st, att))
      [] c.op \in ActOps -> ActCommand(ElementProp(c.node, st, att), ans)
      [] c.op = "has_text_regex" ->
            HasTextRegexCommand(Text(c.node, st, att, delay))
      [] OTHER -> HasTextCommand(Text(c.node, st, att, delay))

\* ------------------------------------------- what the operation returns
Returned(v) == [ret |-> v, exc |-> NoExc]
AttributeError == [ret |-> "raise", exc |-> [kind |-> "AttributeError", msg |-> <<>>]]

\* self if <t> else None, t being bool(self._found(timeout)).
ExistsChoice(t) ==
    [st |-> t.st,
     out |-> IF t.exc THEN AttributeError
             ELSE IF t.val THEN Returned("self") ELSE Returned("None")]

\* return self if self._found(timeout) else None
ExistsResult(n, w, st, att) ==
    IF w.ret # "self" THEN [st |-> st, out |-> w]
    ELSE ExistsChoice(Truth(n, st, att))

\* True if <t> else None, t being bool(self._not_found(timeout)).
NotExistsChoice(t) ==
    [st |-> t.st,
     out |-> IF t.exc THEN AttributeError
             ELSE IF t.val THEN Returned("True") ELSE Returned("None")]

\* return True if self._not_found(timeout) else None
NotExistsResult(n, w, st, att) ==
    IF w.ret # "self" THEN [st |-> st, out |-> w]
    ELSE NotExistsChoice(Truth(n, st, att))

\* self.element.is_displayed() on the handle self.element gave; ans is the
\* driver's answer.
StateCheck(e, ans) ==
    [st |-> e.st,
     out |-> IF e.exc \/ e.val = None THEN AttributeError
             ELSE IF ans THEN Returned("self") ELSE Returned("None")]

\* <t> and self.element.is_displayed()
StateChoice(n, t, att, ans) ==
    IF t.exc THEN [st |-> t.st, out |-> AttributeError]
    ELSE IF ~t.val THEN [st |-> t.st, out |-> Returned("None")]
    ELSE StateCheck(ElementProp(n, t.st, att), ans)

\* return self if self._found(timeout) and self.element.is_displayed() else None
\* (is_enabled, is_selected alike).
StateResult(n, w, st, att, ans) ==
    IF w.ret # "self" THEN [st |-> st, out |-> w]
    ELSE StateChoice(n, Truth(n, st, att), att, ans)

\* The operation's result from waitfor's result w.
Finish(c, w, st, att, ans) ==
    CASE c.op = "exists" -> ExistsResult(c.node, w, st, att)
      [] c.op = "not_exists" -> NotExistsResult(c.node, w, st, att)
      [] c.op \in FindOps -> StateResult(c.node, w, st, att, ans)
      [] OTHER -> [st |-> st, out |-> w]

\* ------------------------------------------------------------ bookkeeping
\* The live nodes a node's locator matches in the scope the node declares:
\* the document of its iframe, else its non-root parent's subtree, else the
\* default content.
RECURSIVE Matches(_, _)
Matches(n, att) ==
    IF iframe[n] # NoNode
    THEN {h \in HandlesOf(query[n]) :
            Live(h, att) /\ frameOf[h] \in Matches(iframe[n], att)}
    ELSE IF parent[n] # NoNode /\ parent[parent[n]] # NoNode
    THEN {h \in HandlesOf(query[n]) :
            Live(h, att) /\ within[h] \in Matches(parent[n], att)}
    ELSE {h \in HandlesOf(query[n]) : Live(h, att) /\ frameOf[h] = None}

\* Whether some live node anywhere has the node's selector (any), and
\* whether the node's locator matches nothing in its scope (gap).
SeenNow(n, att) ==
    IF n = NoNode THEN [any |-> FALSE, gap |-> FALSE]
    ELSE [any |-> \E h \in HandlesOf(query[n]) : Live(h, att),
          gap |-> Matches(n, att) = {}]

SeenAlso(s, t) == [any |-> s.any \/ t.any, gap |-> s.gap \/ t.gap]

Pending == [ret |-> "none", exc |-> NoExc]
NoCall == [op |-> "none", node |-> NoNode, timeout |-> 0, raises |-> FALSE,
           desc |-> <<>>]
NoPrev == [call |-> NoCall, out |-> Pending, trace |-> <<>>]
Idle == pc = "idle"

\* No _multiple attribute yet (hasattr(self, '_multiple') is false).
NoMultiple == [set |-> FALSE, seq |-> <<>>]
NoValue == [num |-> None, seq |-> <<>>]
NoBefore == [we |-> None, ok |-> FALSE, att |-> {}]

\* Lines 108-130: what __init__ stores of its arguments; every node of the
\* tree is declared with css=<selector>.
FieldsOf(n) == [lookup_method |-> "css_selector", query |-> query[n],
                parent |-> parent[n], iframe |-> iframe[n]]
\* A child the wrapper has not constructed.
NoFields == [lookup_method |-> "", query |-> "", parent |-> NoNode,
             iframe |-> NoNode]

Descs == {<<"">>, <<"poll">>}
Scripts == [1..MaxPoll -> {"T", "F", "X"}]

\* ------------------------------------------------ multipleElementsWrapper
\* The attributes of the wrapper and of the nodes it constructs.
W == [mul |-> multiple, cr |-> created, fl |-> fields]

IndexError == [ret |-> "raise", exc |-> [kind |-> "IndexError", msg |-> <<>>]]

\* Line 202: the child object for index idx around handle h; id tells one
\* constructed object from another, desc is '<_desc>[<idx>]'.
Child(n, idx, h, id) ==
    [id |-> id, node |-> ChildName[idx + 1], desc |-> <<n, "[", idx, "]">>,
     webelement |-> h]

\* Lines 201-202: enumerate(self.elements), one child per entry, cr objects
\* having been constructed before.
ChildrenOf(n, wes, cr) ==
    [k \in 1..Len(wes) |-> Child(n, k - 1, wes[k], cr + k)]

\* Whether the children kids include the node m, and which one it is.
IsKid(m, kids) == \E k \in DOMAIN kids : kids[k].node = m
KidOf(m, kids) == kids[CHOOSE k \in DOMAIN kids : kids[k].node = m]

\* Lines 109-110 for every child: self.webelement is the handle it was given,
\* self.webelements the list of that one handle.
Adopt(st, kids) ==
    [st EXCEPT
       !.we = [m \in AllNodes |-> IF IsKid(m, kids)
                                  THEN KidOf(m, kids).webelement ELSE @[m]],
       !.wes = [m \in AllNodes |-> IF IsKid(m, kids)
                                   THEN <<KidOf(m, kids).webelement>> ELSE @[m]]]

\* Line 202: a child gets the wrapper's parent, iframe and kwargs.
Inherit(fl, n, kids) ==
    [m \in AllNodes |-> IF IsKid(m, kids) THEN fl[n] ELSE fl[m]]

\* Line 202 with the indices counted from 1.
BuiltFromOne(n, w, e, kids) ==
    [st |-> Adopt(e.st, kids),
     w |-> [mul |-> [set |-> TRUE,
                     seq |-> [k \in DOMAIN kids |->
                                [kids[k] EXCEPT !.desc = <<n, "[", k, "]">>]]],
            cr |-> w.cr + Len(kids),
            fl |-> Inherit(w.fl, n, kids)],
     exc |-> FALSE,
     val |-> [k \in DOMAIN kids |-> [kids[k] EXCEPT !.desc = <<n, "[", k, "]">>]]]

\* Lines 200-202 after the loop: _multiple holds the children kids.
Built(n, w, e, kids) ==
    [st |-> Adopt(e.st, kids),
     w |-> [mul |-> [set |-> TRUE, seq |-> kids],
            cr |-> w.cr + Len(kids),
            fl |-> Inherit(w.fl, n, kids)],
     exc |-> FALSE,
     val |-> kids]

\* Lines 200-202, e being what self.elements gave: _multiple is already []
\* when self.elements raises.
Materialized(n, w, e) ==
    IF e.exc
    THEN [st |-> e.st, w |-> [w EXCEPT !.mul = [set |-> TRUE, seq |-> <<>>]],
          exc |-> TRUE, val |-> <<>>]
    ELSE Built(n, w, e, ChildrenOf(n, e.val, w.cr))

\* multiple without the hasattr test: the children are built at every access.
MultiplePropFresh(n, w, st, att) == Materialized(n, w, Elements(n, st, att))

\* Lines 197-203: the multiple property.
MultipleProp(n, w, st, att) ==
    IF w.mul.set
    THEN [st |-> st, w |-> w, exc |-> FALSE, val |-> w.mul.seq]
    ELSE Materialized(n, w, Elements(n, st, att))

\* What an operation of the wrapper leaves: the Element state, the wrapper's
\* attributes, the outcome and the value returned.
\* Lines 204-205: __len__, e being what self.elements gave.
LenResult(w, e) ==
    [st |-> e.st, w |-> w,
     out |-> IF e.exc THEN AttributeError ELSE Returned("value"),
     val |-> [num |-> IF e.exc THEN None ELSE Len(e.val), seq |-> <<>>]]

\* Lines 206-207: __iter__, m being what self.multiple gave.
IterResult(m) ==
    [st |-> m.st, w |-> m.w,
     out |-> IF m.exc THEN AttributeError ELSE Returned("value"),
     val |-> [num |-> None, seq |-> m.val]]

\* Lines 208-209: __getitem__ with an index from 0.
GetItem(m, index) ==
    [st |-> m.st, w |-> m.w,
     out |-> IF m.exc THEN AttributeError
             ELSE IF index + 1 \in DOMAIN m.val THEN Returned("value")
             ELSE IndexError,
     val |-> [num |-> index,
              seq |-> IF ~m.exc /\ index + 1 \in DOMAIN m.val
                      THEN <<m.val[index + 1]>> ELSE <<>>]]

\* Lines 41-42: text(), t being what self.element.text gave.
TextResult(w, t) ==
    [st |-> t.st, w |-> w,
     out |-> IF t.exc THEN AttributeError ELSE Returned("value"),
     val |-> [num |-> None, seq |-> t.val]]

\* A read of the element property, e being what it gave.
ElementResult(w, e) ==
    [st |-> e.st, w |-> w,
     out |-> IF e.exc THEN AttributeError ELSE Returned("value"),
     val |-> [num |-> IF e.exc THEN None ELSE e.val, seq |-> <<>>]]

\* --------------------------------------------------------------- actions
\* What every call sets up: waitfor's loop over range(timeout, 0, -1), which
\* is empty for a timeout below 1.
Begin(c) ==
    /\ Idle
    /\ call' = c
    /\ countdown' = Coerce(c.timeout)
    /\ trace' = <<>>
    /\ IF Coerce(c.timeout) > 0
       THEN pc' = "eval" /\ outcome' = Pending
       ELSE pc' = "done" /\ outcome' = WaitforExhausted(c.desc, c.raises)
    /\ delayAtCall' = textDelay
    /\ seen' = SeenNow(c.node, attached)
    /\ log' = <<>>
    /\ UNCHANGED <<script, attached, domChanges, textDelay, frame, webelement,
                   webelements>>
    /\ UNCHANGED wrapperVars

\* exists, not_exists, is_displayed / is_enabled / is_selected of a node.
CallOp ==
    \E n \in Nodes, op \in FindOps \cup {"not_exists"}, t \in 1..MaxWait :
        /\ Begin([op |-> op, node |-> n, timeout |-> t, raises |-> TRUE,
                  desc |-> DescOf(op, n)])
        /\ UNCHANGED prev

\* has_text("Pattern", timeout) of a node.
CallHasText ==
    \E n \in Nodes, t \in 1..MaxTimeout :
        /\ Begin([op |-> "has_text", node |-> n, timeout |-> t, raises |-> TRUE,
                  desc |-> DescOf("has_text", n)])
        /\ UNCHANGED prev

\* exists, not_exists, is_displayed / is_enabled / is_selected of a leaf.
LeafOp ==
    \E n \in Leaves, op \in FindOps \cup {"not_exists"}, t \in 1..MaxWait :
        /\ Begin([op |-> op, node |-> n, timeout |-> t, raises |-> TRUE,
                  desc |-> DescOf(op, n)])
        /\ UNCHANGED prev

\* has_text("Pattern", timeout) of a leaf.
LeafHasText ==
    \E n \in Leaves, t \in 1..MaxWait :
        /\ Begin([op |-> "has_text", node |-> n, timeout |-> t, raises |-> TRUE,
                  desc |-> DescOf("has_text", n)])
        /\ UNCHANGED prev

\* has_text_regex("Pattern", timeout) of a leaf.
CallHasTextRegex ==
    \E n \in Leaves, t \in 1..MaxWait :
        /\ Begin([op |-> "has_text_regex", node |-> n, timeout |-> t,
                  raises |-> TRUE, desc |-> DescOf("has_text_regex", n)])
        /\ UNCHANGED prev

\* click(timeout), clear(timeout), send_keys("keys", timeout) of a leaf.
CallAct ==
    \E n \in Leaves, op \in ActOps, t \in 1..MaxWait :
        /\ Begin([op |-> op, node |-> n, timeout |-> t, raises |-> TRUE,
                  desc |-> DescOf(op, n)])
        /\ UNCHANGED prev

\* waitfor(command, timeout, desc, raises_exception) with a scripted predicate.
CallWaitfor ==
    \E t \in (-1)..MaxPoll, r \in BOOLEAN, d \in Descs :
        /\ Begin([op |-> "waitfor", node |-> NoNode, timeout |-> t, raises |-> r,
                  desc |-> d])
        /\ UNCHANGED prev

\* The state a method leaves behind.
Store(st) ==
    /\ frame' = st.fr
    /\ webelement' = st.we
    /\ webelements' = st.wes
    /\ log' = st.lg

\* The end of the operation, f being its result.
Finished(f) ==
    /\ pc' = "done"
    /\ outcome' = f.out
    /\ Store(f.st)

\* The loop body after the predicate gave r, a being where the loop goes.
EvalStep(r, a, ans) ==
    /\ trace' = Append(trace, r.res)
    /\ countdown' = a.cd
    /\ IF a.pc = "return"
       THEN Finished(Finish(call, Returned("self"), r.st, attached, ans))
       ELSE IF a.pc = "exhausted"
       THEN Finished(Finish(call, WaitforExhausted(call.desc, call.raises),
                            r.st, attached, ans))
       ELSE /\ pc' = a.pc
            /\ outcome' = outcome
            /\ Store(r.st)

EvalWith(r, ans) == EvalStep(r, AfterEval(r.res, countdown), ans)

\* One evaluation of the predicate in the try block.
Eval ==
    /\ pc = "eval"
    /\ \E ans \in BOOLEAN :
        EvalWith(EvalCommand(call, [St EXCEPT !.lg = <<>>], attached, textDelay,
                             Evals(trace) + 1, ans), ans)
    /\ UNCHANGED <<call, script, prev, attached, domChanges, textDelay,
                   delayAtCall, seen>>
    /\ UNCHANGED wrapperVars

SleepStep(a) ==
    /\ trace' = Append(trace, "sleep")
    /\ countdown' = a.cd
    /\ textDelay' = IF textDelay > 0 THEN textDelay - 1 ELSE 0
    /\ IF a.pc = "exhausted"
       THEN Finished(Finish(call, WaitforExhausted(call.desc, call.raises),
                            St, attached, FALSE))
       ELSE /\ pc' = a.pc
            /\ UNCHANGED <<outcome, frame, webelement, webelements, log>>

\* time.sleep(1) in the except clause: one tick passes.
Sleep ==
    /\ pc = "sleep"
    /\ SleepStep(AfterSleep(countdown))
    /\ UNCHANGED <<call, script, prev, attached, domChanges, delayAtCall, seen>>
    /\ UNCHANGED wrapperVars

FindStep(n, f) ==
    /\ Idle
    /\ pc' = "done"
    /\ call' = [op |-> "_find", node |-> n, timeout |-> 0,
                raises |-> FALSE, desc |-> <<>>]
    /\ countdown' = 0
    /\ trace' = <<>>
    /\ outcome' = IF f.exc THEN AttributeError
                  ELSE IF f.val THEN Returned("True") ELSE Returned("False")
    /\ delayAtCall' = textDelay
    /\ seen' = SeenNow(n, attached)
    /\ Store(f.st)
    /\ UNCHANGED <<script, prev, attached, domChanges, textDelay>>
    /\ UNCHANGED wrapperVars

\* A direct call of _find on a node.
CallFind ==
    \E n \in Nodes : FindStep(n, Find(n, [St EXCEPT !.lg = <<>>], attached))

\* The operation has returned or raised; the caller goes on.
Return ==
    /\ pc = "done"
    /\ pc' = "idle"
    /\ prev' = IF call.op = "waitfor"
               THEN [call |-> call, out |-> outcome, trace |-> trace]
               ELSE prev
    /\ call' = NoCall
    /\ countdown' = 0
    /\ trace' = <<>>
    /\ outcome' = Pending
    /\ delayAtCall' = 0
    /\ seen' = [any |-> FALSE, gap |-> FALSE]
    /\ log' = <<>>
    /\ value' = NoValue
    /\ before' = NoBefore
    /\ UNCHANGED <<script, attached, domChanges, textDelay, frame, webelement,
                   webelements, multiple, created, fields, rendered>>

\* The page re-renders the elements of one selector: any of them may be
\* attached afterwards.
Render ==
    \E q \in {query[n] : n \in Nodes} :
        \E S \in SUBSET HandlesOf(q) :
            /\ domChanges < MaxDomChanges
            /\ S # attached \cap HandlesOf(q)
            /\ attached' = (attached \ HandlesOf(q)) \cup S
            /\ domChanges' = domChanges + 1
            /\ seen' = IF pc \in {"idle", "done"} THEN seen
                       ELSE SeenAlso(seen, SeenNow(call.node, attached'))
            /\ rendered' = rendered \cup {q}
            /\ UNCHANGED <<pc, call, countdown, trace, outcome, script, prev,
                           textDelay, delayAtCall, frame, webelement,
                           webelements, log, multiple, created, fields, value,
                           before>>

\* The page re-renders between two operations of the caller.
RenderIdle ==
    /\ Idle
    /\ Render

\* A tick passes while no operation is in progress.
Tick ==
    /\ Idle
    /\ textDelay > 0
    /\ textDelay' = textDelay - 1
    /\ UNCHANGED <<pc, call, countdown, trace, outcome, script, prev, attached,
                   domChanges, delayAtCall, seen, frame, webelement,
                   webelements, log>>
    /\ UNCHANGED wrapperVars

\* An operation that is no waitfor loop: it runs to its end in one step.
DirectStep(op, n, r) ==
    /\ Idle
    /\ pc' = "done"
    /\ call' = [op |-> op, node |-> n, timeout |-> 0, raises |-> FALSE,
                desc |-> <<>>]
    /\ countdown' = 0
    /\ trace' = <<>>
    /\ outcome' = r.out
    /\ value' = r.val
    /\ before' = [we |-> webelement[n],
                  ok |-> ProbeOk(webelement[n], frame, attached),
                  att |-> attached]
    /\ delayAtCall' = textDelay
    /\ seen' = SeenNow(n, attached)
    /\ Store(r.st)
    /\ multiple' = r.w.mul
    /\ created' = r.w.cr
    /\ fields' = r.w.fl
    /\ UNCHANGED <<script, prev, attached, domChanges, textDelay, rendered>>

\* len(wrapper)
CallLen ==
    /\ Idle
    /\ DirectStep("len", "res",
                  LenResult(W, Elements("res", [St EXCEPT !.lg = <<>>],
                                        attached)))

\* for child in wrapper
CallIter ==
    /\ Idle
    /\ DirectStep("iter", "res",
                  IterResult(MultipleProp("res", W, [St EXCEPT !.lg = <<>>],
                                          attached)))

\* wrapper[i]
CallIndex ==
    \E i \in 0..(Len(ChildName) - 1) :
        /\ Idle
        /\ DirectStep("index", "res",
                      GetItem(MultipleProp("res", W, [St EXCEPT !.lg = <<>>],
                                           attached), i))

\* A read of node.element
ElementRead(n) ==
    DirectStep("element", n,
               ElementResult(W, ElementProp(n, [St EXCEPT !.lg = <<>>],
                                            attached)))

\* leaf.text()
CallText ==
    \E n \in Leaves :
        /\ Idle
        /\ DirectStep("text", n,
                      TextResult(W, Text(n, [St EXCEPT !.lg = <<>>], attached,
                                         textDelay)))

\* node.element of a node of the tree.
CallElement ==
    \E n \in Nodes \cup Deep :
        /\ Idle
        /\ ElementRead(n)

\* node._find() of a node of the tree, the node under inf included.
CallResolve ==
    \E n \in Nodes \cup Deep :
        /\ Idle
        /\ FindStep(n, Find(n, [St EXCEPT !.lg = <<>>], attached))

\* child.element of a child the wrapper has handed out.
CallChildElement ==
    \E k \in DOMAIN multiple.seq :
        /\ multiple.set
        /\ ElementRead(multiple.seq[k].node)

\* child._find() of a child the wrapper has handed out.
CallChildFind ==
    \E k \in DOMAIN multiple.seq :
        /\ multiple.set
        /\ FindStep(multiple.seq[k].node,
                    Find(multiple.seq[k].node, [St EXCEPT !.lg = <<>>],
                         attached))

\* --------------------------------------------------------- specifications
\* After construction: nothing resolved (webelement None, webelements
\* [None]), the default content active.
InitCommon ==
    /\ pc = "idle"
    /\ countdown = 0
    /\ trace = <<>>
    /\ outcome = Pending
    /\ prev = NoPrev
    /\ domChanges = 0
    /\ delayAtCall = 0
    /\ seen = [any |-> FALSE, gap |-> FALSE]
    /\ frame = None
    /\ webelement = [n \in AllNodes |-> None]
    /\ webelements = [n \in AllNodes |-> <<None>>]
    /\ log = <<>>
    /\ multiple = NoMultiple
    /\ created = 0
    /\ fields = [n \in AllNodes |-> IF n \in Children THEN NoFields
                                    ELSE FieldsOf(n)]
    /\ value = NoValue
    /\ before = NoBefore
    /\ rendered = {}

\* The page-object tree against a changing page.
Init ==
    /\ InitCommon
    /\ attached = Handles
    /\ call = NoCall
    /\ script = <<>>
    /\ textDelay = 0

Next == CallOp \/ CallFind \/ Eval \/ Sleep \/ Return \/ Render

Spec == Init /\ [][Next]_vars

\* The poller alone, over every behaviour of its predicate.
InitWaitfor ==
    /\ InitCommon
    /\ attached = Handles
    /\ call = NoCall
    /\ script \in Scripts
    /\ textDelay = 0

NextWaitfor == CallWaitfor \/ Eval \/ Sleep \/ Return

SpecWaitfor == InitWaitfor /\ [][NextWaitfor]_vars

\* has_text against a page, rendered or still blank, that shows its text
\* after a delay.
InitText ==
    /\ InitCommon
    /\ attached \in {Handles, {}}
    /\ call = NoCall
    /\ script = <<>>
    /\ textDelay \in 0..MaxDelay

NextText == CallHasText \/ Eval \/ Sleep \/ Return \/ Tick

SpecText == InitText /\ [][NextText]_vars

\* The wrapper, its children and a changing page.
NextMultiple ==
    CallLen \/ CallIter \/ CallIndex \/ CallChildElement \/ CallChildFind
        \/ Return \/ Render

SpecMultiple == Init /\ [][NextMultiple]_vars

\* Resolves and handle reads on every node of the tree, on a changing page.
NextResolve == CallElement \/ CallResolve \/ Return \/ Render

SpecResolve == Init /\ [][NextResolve]_vars

\* click, clear and send_keys on a changing page.
NextAct == CallAct \/ Eval \/ Sleep \/ Return \/ Render

\* The loop of waitfor keeps running: command() and time.sleep(1) return, so
\* a step of the loop that is due does happen.  This is WF_vars(LoopStep)
\* written out: a step of the loop is enabled exactly while the caller is
\* inside the loop.
LoopStep == Eval \/ Sleep
InLoop == pc \in {"eval", "sleep"}
LoopFair == []<>(~InLoop) \/ []<><<LoopStep>>_vars

SpecAct == Init /\ [][NextAct]_vars /\ LoopFair

\* Every public operation of the nodes and of the wrapper.
NextPublic ==
    LeafOp \/ LeafHasText \/ CallHasTextRegex \/ CallText \/ CallAct
        \/ CallLen \/ CallIter \/ CallIndex
        \/ Eval \/ Sleep \/ Return \/ RenderIdle

SpecPublic == Init /\ [][NextPublic]_vars

\* ----------------------------------------------------------------- claims
InCall(op) == pc = "done" /\ call.op = op

\* C1: on a node whose selector no live node has during the whole call,
\* exists and is_displayed / is_enabled / is_selected return None and do
\* not raise.
C1_NoneWhenAbsent ==
    (pc = "done" /\ call.op \in FindOps /\ ~seen.any)
        => outcome = Returned("None")

\* C2: on a node (plain or of the class multipleElements returns) whose
\* selector no live node has, not_exists(timeout=1) returns True.
C2_NotExistsTrue ==
    (InCall("not_exists") /\ call.timeout = 1 /\ ~seen.any)
        => outcome = Returned("True")

\* The two halves of C3: what exists, and what not_exists, gives on a node
\* whose locator matches a live node during the whole call.
C3_ExistsPart == (InCall("exists") /\ ~seen.gap) => outcome = Returned("self")
C3_NotExistsPart == (InCall("not_exists") /\ ~seen.gap) => outcome = Returned("None")

\* C3: on a node whose locator matches a live node during the whole call,
\* exists returns the node and not_exists returns None without raising.
C3_PresentNode == C3_ExistsPart /\ C3_NotExistsPart

\* C4: time passing only in the poller's sleeps, has_text("Pattern") on a
\* resolvable node whose text becomes "Pattern match" after 2 ticks returns
\* the node with timeout=5 and raises with timeout=1.
C4_HasTextAfterTwoTicks ==
    (InCall("has_text") /\ attached = Handles /\ delayAtCall = 2)
        => /\ call.timeout = 5 => outcome = Returned("self")
           /\ call.timeout = 1 => outcome.ret = "raise"

\* C5: in waitfor every evaluation that is not truthy is followed by exactly
\* one sleep before the next evaluation, and there are at most timeout
\* evaluations (one for a timeout of 0).
C5_SleepAfterEveryMiss ==
    (call.op = "waitfor" /\ call.timeout >= 0)
        => /\ \A i \in 1..Len(trace) :
                 (trace[i] \in {"F", "X"} /\ \E j \in (i + 1)..Len(trace) : trace[j] # "sleep")
                     => trace[i + 1] = "sleep" /\ trace[i + 2] # "sleep"
           /\ Evals(trace) <= (IF call.timeout = 0 THEN 1 ELSE call.timeout)

\* A bare waitfor call that ended with no truthy evaluation.
Exhausted ==
    /\ InCall("waitfor")
    /\ \A i \in 1..Len(trace) : trace[i] # "T"

FirstTruthy ==
    IF \E i \in 1..Len(script) : script[i] = "T"
    THEN CHOOSE i \in 1..Len(script) :
            script[i] = "T" /\ \A j \in 1..(i - 1) : script[j] # "T"
    ELSE 0

\* C7: a waitfor call whose predicate is first truthy on attempt k <= timeout
\* evaluates it exactly k times, sleeps at most k-1 times, and returns
\* success right after the k-th evaluation.
C7_ReturnsOnFirstTruthy ==
    (InCall("waitfor") /\ FirstTruthy >= 1 /\ FirstTruthy <= call.timeout)
        => /\ Evals(trace) = FirstTruthy
           /\ Sleeps(trace) <= FirstTruthy - 1
           /\ trace[Len(trace)] = "T"
           /\ outcome = Returned("self")

C7_Witness ==
    /\ InCall("waitfor")
    /\ FirstTruthy = 3
    /\ call.timeout = 3
    /\ Sleeps(trace) = 1
    /\ outcome = Returned("self")

\* The call before was the same call but for its timeout.
SameButTimeout ==
    /\ InCall("waitfor")
    /\ prev.call.op = "waitfor"
    /\ prev.call.raises = call.raises
    /\ prev.call.desc = call.desc

\* C8: waitfor with timeout=0 evaluates, sleeps and ends like waitfor with
\* timeout=1, for every predicate behaviour and raises_exception.
C8_ZeroLikeOne ==
    (SameButTimeout /\ {call.timeout, prev.call.timeout} = {0, 1})
        => /\ Evals(trace) = Evals(prev.trace)
           /\ Sleeps(trace) = Sleeps(prev.trace)
           /\ trace = prev.trace
           /\ outcome = prev.out

C8_Witness ==
    /\ SameButTimeout
    /\ call.timeout = 0
    /\ prev.call.timeout = 1
    /\ call.raises
    /\ trace = <<"X", "sleep">>

\* C9: _find on a child whose parent is not a direct root and cannot be
\* resolved returns False without raising, whatever the child's locator.
C9_ChildOfUnresolvedParent ==
    (/\ InCall("_find")
     /\ parent[call.node] # NoNode
     /\ parent[parent[call.node]] # NoNode
     /\ webelement[parent[call.node]] = None)
        => outcome = Returned("False")

\* C10: every locate call of a node that declares an iframe is made on the
\* driver, right after the switch to the frame of the iframe's handle, also
\* for a node with a non-root parent.
C10_IframeWins ==
    \A i \in 1..Len(log) :
        (log[i].op = "locate" /\ iframe[log[i].node] # NoNode)
            => /\ log[i].arg = Driver
               /\ i > 1
               /\ log[i - 1].op = "frame"
               /\ log[i - 1].node = log[i].node
               /\ log[i - 1].arg = webelement[iframe[log[i].node]]
               /\ log[i].fr = log[i - 1].arg

C10_Witness ==
    /\ \E i \in 2..Len(log) :
          /\ log[i].op = "locate"
          /\ log[i].node = "inf"
          /\ log[i - 1].arg = 3
    /\ parent[parent["inf"]] # NoNode
    /\ webelement["sec"] = 1
    /\ webelement["inf"] = 4


\* C11: while the wrapper's locator matches its 3 live nodes, len(wrapper) is
\* 3, iterating it yields exactly 3 distinct children described '[0]', '[1]',
\* '[2]' in that order, and wrapper[1] is at every access the same object: the
\* second child the wrapper ever constructed.
C11_ThreeChildren ==
    ("res" \notin rendered /\ pc = "done" /\ call.node = "res")
        => /\ call.op = "len" => value.num = Cardinality(HandlesOf("res"))
           /\ call.op = "iter" =>
                /\ outcome = Returned("value")
                /\ Len(value.seq) = Cardinality(HandlesOf("res"))
                /\ \A k \in DOMAIN value.seq :
                      /\ value.seq[k].desc = <<"res", "[", k - 1, "]">>
                      /\ \A j \in DOMAIN value.seq :
                            value.seq[j].id = value.seq[k].id => j = k
           /\ (call.op = "index" /\ value.num = 1) =>
                /\ outcome = Returned("value")
                /\ value.seq = <<multiple.seq[2]>>
                /\ value.seq[1].id = 2
                /\ value.seq[1].desc = <<"res", "[", 1, "]">>

C11_Witness ==
    /\ InCall("index")
    /\ value.num = 1
    /\ "res" \notin rendered
    /\ Len(multiple.seq) = Cardinality(HandlesOf("res"))
    /\ Len(value.seq) = 1
    /\ before.we = 6


\* C12: every len(wrapper) makes a new locate call for the wrapper's locator
\* and returns the number of nodes that match at that moment, never the
\* length of the cached match list.
C12_LenFreshResolve ==
    InCall("len")
        => /\ \E i \in 1..Len(log) :
                 log[i].op = "locate" /\ log[i].node = call.node
           /\ value.num = Cardinality(Matches(call.node, before.att))


\* C13: once the wrapper's children are materialized, the cached sequence
\* never changes, and every later iteration and index access returns it (the
\* same length, the same child objects), whatever the page and later resolves
\* have done to the match set.
C13_Snapshot ==
    [][multiple.set =>
         /\ multiple' = multiple
         /\ (pc = "idle" /\ pc' = "done" /\ call'.op = "iter") =>
               /\ outcome' = Returned("value")
               /\ value'.seq = multiple.seq
         /\ (pc = "idle" /\ pc' = "done" /\ call'.op = "index") =>
               IF value'.num + 1 \in DOMAIN multiple.seq
               THEN /\ outcome' = Returned("value")
                    /\ value'.seq = <<multiple.seq[value'.num + 1]>>
               ELSE outcome' = IndexError]_vars

C13_Witness ==
    /\ InCall("iter")
    /\ "res" \in rendered
    /\ Len(value.seq) = Cardinality(HandlesOf("res"))
    /\ Cardinality(Matches("res", attached)) < Len(value.seq)
    /\ before.att = attached


\* C14: no step of a public operation changes the lookup method, query,
\* parent or iframe of a constructed node, and a node's cached handle and
\* match list change only in a step in which _find made a locate call for
\* that node.
C14_FrameOfOperations ==
    [][\A n \in AllNodes :
         fields[n] # NoFields =>
            /\ fields'[n] = fields[n]
            /\ (webelement'[n] # webelement[n] \/ webelements'[n] # webelements[n])
                  => \E i \in 1..Len(log') :
                        /\ pc = "sleep" => i > Len(log)
                        /\ log'[i].op = "locate"
                        /\ log'[i].node = n]_vars

C14_Witness ==
    /\ pc = "done"
    /\ call.op \in ActOps
    /\ call.node = "btn"
    /\ webelement["btn"] = None
    /\ webelement["sec"] = 1
    /\ multiple.set
    /\ fields["btn"] = FieldsOf("btn")
    /\ \E i \in 1..Len(log) : log[i].op = "locate" /\ log[i].node = "btn"


\* C15: a read of the element property returns the cached handle, with no
\* locate call, when its probe succeeds; when the probe raises, _find runs
\* and the read either raises or returns what that resolve left: none, or a
\* live handle of the node's selector found by a locate call of this read.
C15_ProbedHandle ==
    InCall("element") =>
        IF before.ok
        THEN /\ outcome = Returned("value")
             /\ value.num = before.we
             /\ \A i \in 1..Len(log) : log[i].op # "locate"
        ELSE \/ outcome.ret = "raise"
             \/ /\ outcome = Returned("value")
                /\ \E i \in 1..Len(log) :
                      log[i].op = "locate" /\ log[i].node = call.node
                /\ value.num = webelement[call.node]
                /\ value.num # None =>
                      /\ value.num \in HandlesOf(query[call.node])
                      /\ Live(value.num, before.att)

C15_Witness ==
    /\ InCall("element")
    /\ ~before.ok
    /\ before.we # None
    /\ before.we \notin before.att
    /\ outcome = Returned("value")
    /\ value.num # None
    /\ value.num # before.we


\* C16: no exception leaves _find; every _find makes exactly one locate call
\* for its own locator; when it reports found the handle is the first match
\* and the match list the whole result; in every other case it reports
\* not-found with the handle cleared and the match list empty.
C16_ResolveNeverRaises ==
    InCall("_find") =>
        /\ outcome.ret # "raise"
        /\ Cardinality({i \in 1..Len(log) :
                          log[i].op = "locate" /\ log[i].node = call.node}) = 1
        /\ outcome = Returned("True") =>
              /\ webelements[call.node] # <<>>
              /\ webelement[call.node] = webelements[call.node][1]
        /\ outcome # Returned("True") =>
              /\ outcome = Returned("False")
              /\ webelement[call.node] = None
              /\ webelements[call.node] = <<>>


\* C17: every _find of a node whose parent has a parent makes a new locate
\* call for the parent's locator before the node's own locate call, and the
\* node's locate call is scoped to the handle that parent resolve obtained.
C17_ParentReresolved ==
    (/\ InCall("_find")
     /\ parent[call.node] # NoNode
     /\ parent[parent[call.node]] # NoNode)
        => /\ \E j \in 1..Len(log) :
                 log[j].op = "locate" /\ log[j].node = parent[call.node]
           /\ \A i \in 1..Len(log) :
                 (log[i].op = "locate" /\ log[i].node = call.node)
                    => /\ \E j \in 1..(i - 1) :
                             /\ log[j].op = "locate"
                             /\ log[j].node = parent[call.node]
                       /\ log[i].arg = webelement[parent[call.node]]


\* C18: the handle of child i of a materialized wrapper is at every moment
\* the node it was built around (the i-th match) or none, never the node of
\* another index, whatever was done to the child and the page.
C18_ChildKeepsIndex ==
    multiple.set =>
        \A k \in DOMAIN multiple.seq :
            webelement[multiple.seq[k].node]
                \in {None, multiple.seq[k].webelement}


\* The attempts of the current call that did not raise.
Completed == {i \in 1..Len(trace) : trace[i] \in {"T", "F"}}

\* C19: a call of click, clear or send_keys with a timeout of at least 1
\* always ends; it makes at most timeout attempts; at most one attempt does
\* not raise, it is the last step of the call and the node is returned; a
\* call in which every attempt raised ends by raising the timeout exception.
C19_ActTerminates ==
    /\ []((pc # "idle" /\ call.op \in ActOps) =>
            /\ Evals(trace) <= call.timeout
            /\ Cardinality(Completed) <= 1
            /\ Completed # {} =>
                  /\ Completed = {Len(trace)}
                  /\ pc = "done"
                  /\ outcome = Returned("self")
            /\ (pc = "done" /\ Completed = {}) =>
                  /\ outcome = WaitforExhausted(call.desc, TRUE)
                  /\ outcome.ret = "raise"
                  /\ Evals(trace) = call.timeout)
    /\ (pc \in {"eval", "sleep"}) ~> (pc = "done")

C19_Witness ==
    /\ InCall("click")
    /\ call.timeout = 2
    /\ trace = <<"X", "sleep", "T">>
    /\ outcome = Returned("self")


\* C20: every locate call made for a node that declares no iframe runs with
\* the default top-level document as the session's active frame.
C20_DefaultFrameForAll ==
    \A i \in 1..Len(log) :
        (log[i].op = "locate" /\ iframe[log[i].node] = NoNode)
            => log[i].fr = None

\* C20, amended: every locate call made for a node that declares no iframe
\* and is the root or a direct child of the root is made on the driver, right
\* after the switch to the default content, with the default document active.
C20_DefaultFrameForRootChildren ==
    \A i \in 1..Len(log) :
        (/\ log[i].op = "locate"
         /\ iframe[log[i].node] = NoNode
         /\ parent[parent[log[i].node]] = NoNode)
            => /\ log[i].fr = None
               /\ log[i].arg = Driver
               /\ i > 1
               /\ log[i - 1].op = "default_content"
               /\ log[i - 1].node = log[i].node

C20_Witness ==
    /\ InCall("element")
    /\ call.node = "res"
    /\ webelement["inf"] = 4
    /\ before.we = 6
    /\ Live(6, before.att)
    /\ ~before.ok
    /\ \E i \in 1..Len(log) :
          log[i].op = "locate" /\ log[i].node = "res" /\ log[i].fr = None

====
